---- MODULE Spec2Model ----
(***************************************************************************)
(* Model of the mailgun-sdk client: parameter rendering, request dispatch  *)
(* and response classification (src/src/client.rs, src/src/param.rs,       *)
(* src/src/endpoints/*.rs).                                                *)
(*                                                                         *)
(* A response body is modelled by its content: either text that is not     *)
(* JSON, or a JSON value (scalar, array, object).  Objects are functions   *)
(* from keys to JSON values; records are decoded by field name, as the     *)
(* derived deserializers of the response structures do for JSON objects.   *)
(* The bodies considered hold arrays only as lists of items and as the     *)
(* empty array, which decodes as no structure.                             *)
(***************************************************************************)
EXTENDS Integers, Sequences, FiniteSets, TLC

VARIABLES client, calls

vars == <<client, calls>>

(***************************************************************************)
(* JSON values (the content of a response body).                           *)
(***************************************************************************)
JText(s) == [k |-> "text", s |-> s]
JNull == [k |-> "null"]
JStr(s) == [k |-> "str", s |-> s]
JNum(n) == [k |-> "num", n |-> n]
JFloat(n) == [k |-> "float", n |-> n]
JBool(b) == [k |-> "bool", b |-> b]
JArr(a) == [k |-> "arr", a |-> a]
JObj(o) == [k |-> "obj", o |-> o]

(***************************************************************************)
(* Decoded (typed) values and decode results.                              *)
(***************************************************************************)
VStr(s) == [k |-> "String", s |-> s]
VInt(n) == [k |-> "int", n |-> n]
VF64(n, frac) == [k |-> "f64", n |-> n, frac |-> frac]
VBool(b) == [k |-> "bool", b |-> b]
VNone == [k |-> "None"]
VSome(x) == [k |-> "Some", x |-> x]
VVec(a) == [k |-> "Vec", a |-> a]
VStruct(name, f) == [k |-> "struct", name |-> name, f |-> f]

Ok(v) == [ok |-> TRUE, v |-> v]
Err(e) == [ok |-> FALSE, err |-> e]

(***************************************************************************)
(* Types of the response structures, as data.  A field has the name the    *)
(* program sees, the set of keys accepted on the wire, and a type.         *)
(***************************************************************************)
TString == [k |-> "String"]
TI64 == [k |-> "i64"]
TF64 == [k |-> "f64"]
TUsize == [k |-> "usize"]
TBool == [k |-> "bool"]
TOpt(t) == [k |-> "Option", t |-> t]
TVec(t) == [k |-> "Vec", t |-> t]
TStruct(name, fields) == [k |-> "struct", name |-> name, fields |-> fields]
Field(name, wire, ty) == [name |-> name, wire |-> wire, ty |-> ty]

(***************************************************************************)
(* serde_json decoding of a JSON value into a declared type.  A failure is *)
(* reported by its category: "syntax" when the text is not JSON, "data"    *)
(* when the JSON does not fit the type (missing field, wrong type,         *)
(* repeated field).  Unknown keys of an object are ignored; an Option      *)
(* field may be missing or null.                                           *)
(***************************************************************************)
RECURSIVE Decode(_, _)

\* Variant: a field missing from the object takes a default instead of failing.
DecodeField_Defaulted(f, o) ==
    LET keys == f.wire \cap DOMAIN o IN
    IF Cardinality(keys) > 1 THEN Err("data")
    ELSE IF keys = {} THEN
        (IF f.ty.k = "Option" THEN Ok(VNone)
         ELSE IF f.ty.k = "Vec" THEN Ok(VVec(<< >>))
         ELSE Ok(VStr("")))
    ELSE Decode(f.ty, o[CHOOSE x \in keys : TRUE])

DecodeField(f, o) ==
    LET keys == f.wire \cap DOMAIN o IN
    IF Cardinality(keys) > 1 THEN Err("data")
    ELSE IF keys = {} THEN (IF f.ty.k = "Option" THEN Ok(VNone) ELSE Err("data"))
    ELSE Decode(f.ty, o[CHOOSE x \in keys : TRUE])

DecodeStruct(name, fields, o) ==
    LET n == Len(fields)
        res == [i \in 1..n |-> DecodeField(fields[i], o)]
        names == {fields[i].name : i \in 1..n}
        idx(nm) == CHOOSE i \in 1..n : fields[i].name = nm
    IN  IF \A i \in 1..n : res[i].ok
        THEN Ok(VStruct(name, [nm \in names |-> res[idx(nm)].v]))
        ELSE Err("data")

DecodeVec(t, a) ==
    LET res == [i \in 1..Len(a) |-> Decode(t, a[i])] IN
    IF \A i \in 1..Len(a) : res[i].ok
    THEN Ok(VVec([i \in 1..Len(a) |-> res[i].v]))
    ELSE Err("data")

Decode(ty, j) ==
    IF j.k = "text" THEN Err("syntax")
    ELSE IF ty.k = "String" THEN (IF j.k = "str" THEN Ok(VStr(j.s)) ELSE Err("data"))
    ELSE IF ty.k = "i64" THEN (IF j.k = "num" THEN Ok(VInt(j.n)) ELSE Err("data"))
    ELSE IF ty.k = "usize" THEN (IF j.k = "num" /\ j.n >= 0 THEN Ok(VInt(j.n)) ELSE Err("data"))
    ELSE IF ty.k = "f64" THEN
        (IF j.k = "num" THEN Ok(VF64(j.n, FALSE))
         ELSE IF j.k = "float" THEN Ok(VF64(j.n, TRUE))
         ELSE Err("data"))
    ELSE IF ty.k = "bool" THEN (IF j.k = "bool" THEN Ok(VBool(j.b)) ELSE Err("data"))
    ELSE IF ty.k = "Option" THEN
        (IF j.k = "null" THEN Ok(VNone)
         ELSE LET r == Decode(ty.t, j) IN IF r.ok THEN Ok(VSome(r.v)) ELSE r)
    ELSE IF ty.k = "Vec" THEN (IF j.k = "arr" THEN DecodeVec(ty.t, j.a) ELSE Err("data"))
    ELSE (IF j.k = "obj" THEN DecodeStruct(ty.name, ty.fields, j.o) ELSE Err("data"))

(***************************************************************************)
(* The response structures of the endpoints.                               *)
(***************************************************************************)
S(name) == Field(name, {name}, TString)
OptS(name, wire) == Field(name, {wire}, TOpt(TString))
OptB(name, wire) == Field(name, {wire}, TOpt(TBool))
I64(name, wire) == Field(name, {wire}, TI64)

Paging ==
    TStruct("Paging", <<
        Field("first", {"first"}, TOpt(TString)),
        S("next"),
        S("previous"),
        Field("last", {"last"}, TOpt(TString)) >>)

BounceItem ==
    TStruct("BounceItem", << S("address"), S("code"), S("error"), S("created_at") >>)

GetBouncesResponse ==
    TStruct("GetBouncesResponse", <<
        Field("items", {"items"}, TVec(BounceItem)),
        Field("paging", {"paging"}, Paging) >>)

ComplaintItem ==
    TStruct("ComplaintItem", << S("address"), S("tag"), S("created_at") >>)

GetComplaintsResponse ==
    TStruct("GetComplaintsResponse", <<
        Field("items", {"items"}, TVec(ComplaintItem)),
        Field("paging", {"paging"}, Paging) >>)

UnsubscribeItem ==
    TStruct("UnsubscribeItem", << S("address"), S("tag"), S("created_at") >>)

GetUnsubscribesResponse ==
    TStruct("GetUnsubscribesResponse", <<
        Field("items", {"items"}, TVec(UnsubscribeItem)),
        Field("paging", {"paging"}, Paging) >>)

WhitelistItem ==
    TStruct("WhitelistItem", <<
        S("value"), S("reason"), S("type"),
        Field("created_at", {"createdAt"}, TString) >>)

GetWhitelistsResponse ==
    TStruct("GetWhitelistsResponse", <<
        Field("items", {"items"}, TVec(WhitelistItem)),
        Field("paging", {"paging"}, Paging) >>)

StatAccepted ==
    TStruct("StatAccepted", <<
        I64("outgoing", "outgoing"), I64("incoming", "incoming"), I64("total", "total") >>)

StatDelivered ==
    TStruct("StatDelivered", <<
        I64("smtp", "smtp"), I64("http", "http"), I64("total", "total") >>)

StatFailedPermanent ==
    TStruct("StatFailedPermanent", <<
        I64("bounce", "bounce"),
        I64("delayed_bounce", "delayed-bounce"),
        I64("suppress_bounce", "suppress-bounce"),
        I64("suppress_unsubscribe", "suppress-unsubscribe"),
        I64("suppress_complaint", "suppress-complaint"),
        I64("total", "total") >>)

StatFailedTemporary ==
    TStruct("StatFailedTemporary", << I64("espblock", "espblock") >>)

StatFailed ==
    TStruct("StatFailed", <<
        Field("permanent", {"permanent"}, StatFailedPermanent),
        Field("temporary", {"temporary"}, StatFailedTemporary) >>)

StatItem ==
    TStruct("StatItem", <<
        S("time"),
        Field("accepted", {"accepted"}, StatAccepted),
        Field("delivered", {"delivered"}, StatDelivered),
        Field("failed", {"failed"}, StatFailed) >>)

GetStatsResponse ==
    TStruct("GetStatsResponse", <<
        S("end"), S("resolution"), S("start"),
        Field("stats", {"stats"}, TVec(StatItem)) >>)

EventEnvelope ==
    TStruct("EventEnvelope", << S("targets"), S("transport"), S("sender") >>)

EventFlags ==
    TStruct("EventFlags", <<
        OptB("is_authenticated", "is-authenticated"),
        OptB("is_delayed_bounce", "is-delayed-bounce"),
        OptB("is_routed", "is-routed"),
        OptB("is_system_test", "is-system-test"),
        OptB("is_test_mode", "is-test-mode") >>)

EventReject ==
    TStruct("EventReject", << OptS("reason", "reason"), OptS("description", "description") >>)

EventDeliveryStatus ==
    TStruct("EventDeliveryStatus", <<
        OptB("tls", "tls"),
        OptS("mx_host", "mx-host"),
        Field("code", {"code"}, TOpt(TI64)),
        OptS("description", "description"),
        Field("session_seconds", {"session-seconds"}, TOpt(TF64)),
        OptB("utf8", "utf8"),
        Field("attempt_no", {"attempt-no"}, TOpt(TUsize)),
        OptS("message", "message"),
        OptB("certificate_verified", "certificate-verified") >>)

EventMessageHeader ==
    TStruct("EventMessageHeader", <<
        OptS("to", "to"), OptS("message_id", "message-id"),
        OptS("from", "from"), OptS("subject", "subject") >>)

EventMessageAttachment ==
    TStruct("EventMessageAttachment", <<
        Field("size", {"size"}, TOpt(TI64)),
        OptS("content_type", "content-type"),
        OptS("filename", "filename") >>)

EventMessage ==
    TStruct("EventMessage", <<
        Field("headers", {"headers"}, TOpt(EventMessageHeader)),
        Field("attachments", {"attachments"}, TOpt(TVec(EventMessageAttachment))),
        Field("recipients", {"recipients"}, TOpt(TVec(TString))),
        Field("size", {"size"}, TOpt(TI64)) >>)

EventStorage ==
    TStruct("EventStorage", << S("url"), S("key") >>)

EventGeolocation ==
    TStruct("EventGeolocation", << S("country"), S("region"), S("city") >>)

EventClientInfo ==
    TStruct("EventClientInfo", <<
        OptS("client_type", "client-type"),
        OptS("client_os", "client-os"),
        OptS("device_type", "device-type"),
        OptS("client_name", "client-name"),
        OptS("user_agent", "user-agent") >>)

EventItem ==
    TStruct("EventItem", <<
        S("event"),
        S("id"),
        Field("timestamp", {"timestamp"}, TF64),
        OptS("log_level", "log-level"),
        OptS("method", "method"),
        OptS("severity", "severity"),
        Field("envelope", {"envelope"}, TOpt(EventEnvelope)),
        Field("flags", {"flags"}, TOpt(EventFlags)),
        Field("reject", {"reject"}, TOpt(EventReject)),
        Field("delivery_status", {"delivery-status"}, TOpt(EventDeliveryStatus)),
        Field("message", {"message"}, EventMessage),
        Field("storage", {"storage"}, TOpt(EventStorage)),
        S("recipient"),
        OptS("recipient_domain", "recipient-domain"),
        Field("geolocation", {"geolocation"}, TOpt(EventGeolocation)),
        Field("tags", {"tags"}, TOpt(TVec(TString))),
        OptS("ip", "ip"),
        Field("client_info", {"client-info"}, TOpt(EventClientInfo)) >>)

GetEventsResponse ==
    TStruct("GetEventsResponse", <<
        Field("items", {"items"}, TVec(EventItem)),
        Field("paging", {"paging"}, Paging) >>)

SendMessageResponse ==
    TStruct("SendMessageResponse", << S("id"), S("message") >>)

(***************************************************************************)
(* ErrorResponse: an untagged enum.  The variants are tried in the order   *)
(* of declaration; the first that decodes wins.                            *)
(***************************************************************************)
WithError ==
    TStruct("WithError", << Field("error", {"error", "Error"}, TString) >>)

WithMessage ==
    TStruct("WithMessage", << S("message") >>)

ErrorResponse(j) ==
    IF j.k = "text" THEN Err("syntax")
    ELSE LET e == Decode(WithError, j)
             m == Decode(WithMessage, j)
         IN  IF e.ok THEN e
             ELSE IF m.ok THEN m
             ELSE Err("data")

(***************************************************************************)
(* Request parameters.  A parameter is a variant of its endpoint's enum    *)
(* with a payload: a usize, a bool, a string slice, a key/value pair of    *)
(* string slices, or a reference to a serializable value.                  *)
(***************************************************************************)
PUsize(n) == [k |-> "usize", n |-> n]
PBool(b) == [k |-> "bool", b |-> b]
PStr(s) == [k |-> "str", s |-> s]
PKeyValue(key, value) == [k |-> "kv", key |-> key, value |-> value]
PRef(x) == [k |-> "ref", x |-> x]
P(enum, variant, val) == [enum |-> enum, variant |-> variant, val |-> val]

MAILGUN_API_BASE == "https://api.mailgun.net/v3"

Digit(d) == <<"0", "1", "2", "3", "4", "5", "6", "7", "8", "9">>[d + 1]

RECURSIVE usize_to_string(_)
usize_to_string(n) ==
    IF n < 10 THEN Digit(n) ELSE usize_to_string(n \div 10) \o Digit(n % 10)

bool_to_string(b) == IF b THEN "true" ELSE "false"

\* Variant: the toggle is written the way bool::to_string writes it.
YesNo_Native(b) == IF b THEN "true" ELSE "false"

YesNo(b) == IF b THEN "yes" ELSE "no"

(***************************************************************************)
(* The values a RecipientVariables parameter can refer to (T: Serialize),  *)
(* with strings as sequences of characters: String, i64, f64 (finite, in   *)
(* tenths, or NaN or an infinity), bool, Option::None, Vec and map (the    *)
(* entries in the order the map iterates them).                            *)
(***************************************************************************)
SStr(chars) == [k |-> "String", chars |-> chars]
SInt(n) == [k |-> "i64", int |-> n]
SFinite(tenths) == [k |-> "f64", class |-> "finite", tenths |-> tenths]
SNaN == [k |-> "f64", class |-> "nan", tenths |-> 0]
SInfinity == [k |-> "f64", class |-> "infinite", tenths |-> 0]
SBool(b) == [k |-> "bool", bool |-> b]
SNone == [k |-> "None"]
SVec(items) == [k |-> "Vec", items |-> items]
SEntry(key, val) == [key |-> key, val |-> val]
SMap(entries) == [k |-> "Map", entries |-> entries]

RECURSIVE Concat(_)
Concat(chars) == IF chars = << >> THEN "" ELSE Head(chars) \o Concat(Tail(chars))

Abs(n) == IF n < 0 THEN 0 - n ELSE n

\* itoa: the decimal digits of an integer, with its sign.
RECURSIVE digits(_)
digits(n) == IF n < 10 THEN <<Digit(n)>> ELSE Append(digits(n \div 10), Digit(n % 10))

itoa(n) == IF n < 0 THEN <<"-">> \o digits(0 - n) ELSE digits(n)

\* serde_json's format_escaped_str_contents, for one character.
escape(c) ==
    CASE c = "\"" -> <<"\\", "\"">>
      [] c = "\\" -> <<"\\", "\\">>
      [] c = "\n" -> <<"\\", "n">>
      [] OTHER -> <<c>>

RECURSIVE format_escaped_str_contents(_)
format_escaped_str_contents(chars) ==
    IF chars = << >> THEN << >>
    ELSE escape(Head(chars)) \o format_escaped_str_contents(Tail(chars))

serialize_str(chars) == <<"\"">> \o format_escaped_str_contents(chars) \o <<"\"">>

\* serialize_f64: a value that is not finite is written as null.
serialize_f64(v) ==
    IF v.class = "finite"
    THEN (IF v.tenths < 0 THEN <<"-">> ELSE << >>)
             \o digits(Abs(v.tenths) \div 10) \o <<".", Digit(Abs(v.tenths) % 10)>>
    ELSE <<"n", "u", "l", "l">>

\* MapKeySerializer: a string key is written as it is, an integer key as a
\* string of its digits; any other key is the error "key must be a string".
serialize_key(key) ==
    CASE key.k = "String" -> Ok(serialize_str(key.chars))
      [] key.k = "i64" -> Ok(<<"\"">> \o itoa(key.int) \o <<"\"">>)
      [] OTHER -> Err("key must be a string")

RECURSIVE serialize(_), serialize_seq(_, _), serialize_map(_, _)
\* The elements of a sequence from the i-th on, separated by commas.
serialize_seq(items, i) ==
    IF i > Len(items) THEN Ok(<< >>)
    ELSE LET e == serialize(items[i])
             rest == serialize_seq(items, i + 1) IN
         IF ~e.ok THEN e
         ELSE IF ~rest.ok THEN rest
         ELSE Ok((IF i > 1 THEN <<",">> ELSE << >>) \o e.v \o rest.v)

\* The entries of a map from the i-th on.
serialize_map(entries, i) ==
    IF i > Len(entries) THEN Ok(<< >>)
    ELSE LET key == serialize_key(entries[i].key) IN
         IF ~key.ok THEN key
         ELSE LET val == serialize(entries[i].val) IN
              IF ~val.ok THEN val
              ELSE LET rest == serialize_map(entries, i + 1) IN
                   IF ~rest.ok THEN rest
                   ELSE Ok((IF i > 1 THEN <<",">> ELSE << >>)
                               \o key.v \o <<":">> \o val.v \o rest.v)

\* Serialize::serialize into the compact JSON writer: the characters written.
serialize(v) ==
    CASE v.k = "String" -> Ok(serialize_str(v.chars))
      [] v.k = "i64" -> Ok(itoa(v.int))
      [] v.k = "f64" -> Ok(serialize_f64(v))
      [] v.k = "bool" -> Ok(IF v.bool THEN <<"t", "r", "u", "e">>
                                      ELSE <<"f", "a", "l", "s", "e">>)
      [] v.k = "None" -> Ok(<<"n", "u", "l", "l">>)
      [] v.k = "Vec" -> LET r == serialize_seq(v.items, 1) IN
                        IF r.ok THEN Ok(<<"[">> \o r.v \o <<"]">>) ELSE r
      [] v.k = "Map" -> LET r == serialize_map(v.entries, 1) IN
                        IF r.ok THEN Ok(<<"{">> \o r.v \o <<"}">>) ELSE r

\* serde_json::to_string: the characters written, as a String.
serde_json_to_string(x) ==
    LET r == serialize(x) IN IF r.ok THEN Ok(Concat(r.v)) ELSE r

(***************************************************************************)
(* Reading JSON text back: serde_json's Deserializer over the characters,  *)
(* giving a serde_json::Value.  A number with a fraction is kept as its     *)
(* digits without the point and the count of digits after the point.       *)
(***************************************************************************)
Value_Null == [j |-> "Null"]
Value_Bool(b) == [j |-> "Bool", jb |-> b]
Value_Int(n) == [j |-> "Int", ji |-> n]
Value_Float(mantissa, scale) == [j |-> "Float", jm |-> mantissa, js |-> scale]
Value_String(chars) == [j |-> "String", jc |-> chars]
Value_Array(items) == [j |-> "Array", ja |-> items]
Value_Object(members) == [j |-> "Object", jo |-> members]

Parsed(val, next) == [ok |-> TRUE, val |-> val, next |-> next]
Failed(at) == [ok |-> FALSE, next |-> at]

Digits == {"0", "1", "2", "3", "4", "5", "6", "7", "8", "9"}
DigitValue(c) == CHOOSE d \in 0..9 : Digit(d) = c

RECURSIVE parse_whitespace(_, _)
parse_whitespace(cs, i) ==
    IF i <= Len(cs) /\ cs[i] \in {" ", "\n"} THEN parse_whitespace(cs, i + 1) ELSE i

\* The literal word at position i.
parse_ident(cs, i, word, val) ==
    IF i + Len(word) - 1 <= Len(cs) /\ SubSeq(cs, i, i + Len(word) - 1) = word
    THEN Parsed(val, i + Len(word))
    ELSE Failed(i)

\* The characters of a string up to its closing quote; i is past the opening one.
RECURSIVE parse_str(_, _, _)
parse_str(cs, i, acc) ==
    IF i > Len(cs) THEN Failed(i)
    ELSE IF cs[i] = "\"" THEN Parsed(acc, i + 1)
    ELSE IF cs[i] = "\\"
         THEN IF i + 1 > Len(cs) THEN Failed(i)
              ELSE IF cs[i + 1] \in {"\"", "\\", "/"}
                   THEN parse_str(cs, i + 2, Append(acc, cs[i + 1]))
              ELSE IF cs[i + 1] = "n" THEN parse_str(cs, i + 2, Append(acc, "\n"))
              ELSE Failed(i)
    ELSE IF cs[i] = "\n" THEN Failed(i)
    ELSE parse_str(cs, i + 1, Append(acc, cs[i]))

\* A run of digits from i: their value and their count.
RECURSIVE parse_digits(_, _, _, _)
parse_digits(cs, i, n, count) ==
    IF i <= Len(cs) /\ cs[i] \in Digits
    THEN parse_digits(cs, i + 1, n * 10 + DigitValue(cs[i]), count + 1)
    ELSE [n |-> n, count |-> count, next |-> i]

parse_number(cs, i) ==
    LET neg == cs[i] = "-"
        whole == parse_digits(cs, IF neg THEN i + 1 ELSE i, 0, 0)
        sign == IF neg THEN 0 - 1 ELSE 1 IN
    IF whole.count = 0 THEN Failed(i)
    ELSE IF whole.next <= Len(cs) /\ cs[whole.next] = "."
         THEN LET frac == parse_digits(cs, whole.next + 1, whole.n, 0) IN
              IF frac.count = 0 THEN Failed(whole.next)
              ELSE Parsed(Value_Float(sign * frac.n, frac.count), frac.next)
         ELSE Parsed(Value_Int(sign * whole.n), whole.next)

RECURSIVE parse_value(_, _), parse_elements(_, _, _), parse_members(_, _, _)
\* The elements of an array after one element; i is at "," or "]".
parse_elements(cs, i, acc) ==
    LET e == parse_value(cs, i) IN
    IF ~e.ok THEN e
    ELSE LET j == parse_whitespace(cs, e.next) IN
         IF j > Len(cs) THEN Failed(j)
         ELSE IF cs[j] = "," THEN parse_elements(cs, j + 1, Append(acc, e.val))
         ELSE IF cs[j] = "]" THEN Parsed(Value_Array(Append(acc, e.val)), j + 1)
         ELSE Failed(j)

\* The members of an object; i is at the name of a member.
parse_members(cs, i, acc) ==
    LET n == parse_whitespace(cs, i) IN
    IF n > Len(cs) \/ cs[n] # "\"" THEN Failed(n)
    ELSE LET name == parse_str(cs, n + 1, << >>) IN
         IF ~name.ok THEN name
         ELSE LET c == parse_whitespace(cs, name.next) IN
              IF c > Len(cs) \/ cs[c] # ":" THEN Failed(c)
              ELSE LET e == parse_value(cs, c + 1) IN
                   IF ~e.ok THEN e
                   ELSE LET j == parse_whitespace(cs, e.next)
                            member == [name |-> name.val, value |-> e.val] IN
                        IF j > Len(cs) THEN Failed(j)
                        ELSE IF cs[j] = "," THEN parse_members(cs, j + 1, Append(acc, member))
                        ELSE IF cs[j] = "}"
                             THEN Parsed(Value_Object(Append(acc, member)), j + 1)
                        ELSE Failed(j)

parse_value(cs, at) ==
    LET i == parse_whitespace(cs, at) IN
    IF i > Len(cs) THEN Failed(i)
    ELSE CASE cs[i] = "n" -> parse_ident(cs, i, <<"n", "u", "l", "l">>, Value_Null)
           [] cs[i] = "t" -> parse_ident(cs, i, <<"t", "r", "u", "e">>, Value_Bool(TRUE))
           [] cs[i] = "f" -> parse_ident(cs, i, <<"f", "a", "l", "s", "e">>,
                                         Value_Bool(FALSE))
           [] cs[i] = "\"" -> LET s == parse_str(cs, i + 1, << >>) IN
                              IF s.ok THEN Parsed(Value_String(s.val), s.next) ELSE s
           [] cs[i] = "-" \/ cs[i] \in Digits -> parse_number(cs, i)
           [] cs[i] = "[" -> LET j == parse_whitespace(cs, i + 1) IN
                             IF j <= Len(cs) /\ cs[j] = "]"
                             THEN Parsed(Value_Array(<< >>), j + 1)
                             ELSE parse_elements(cs, i + 1, << >>)
           [] cs[i] = "{" -> LET j == parse_whitespace(cs, i + 1) IN
                             IF j <= Len(cs) /\ cs[j] = "}"
                             THEN Parsed(Value_Object(<< >>), j + 1)
                             ELSE parse_members(cs, i + 1, << >>)
           [] OTHER -> Failed(i)

\* serde_json::from_str::<Value>: one value, then only whitespace.
from_chars(cs) ==
    LET r == parse_value(cs, 1) IN
    IF r.ok /\ parse_whitespace(cs, r.next) > Len(cs) THEN Ok(r.val) ELSE Err("syntax")

InvalidJson(name, error) == [k |-> "InvalidJson", name |-> name, error |-> error]

\* Variant: the documented maximum is enforced when rendering.
Limit_try_as_tuple_Validated(p) ==
    IF p.val.n > 10000 THEN Err(InvalidJson("limit", "out of range"))
    ELSE Ok(<<"limit", usize_to_string(p.val.n)>>)

Limit_try_as_tuple(p) == Ok(<<"limit", usize_to_string(p.val.n)>>)

GetBouncesParam_try_as_tuple(p) == Limit_try_as_tuple(p)

GetComplaintsParam_try_as_tuple(p) == Limit_try_as_tuple(p)

GetUnsubscribesParam_try_as_tuple(p) == Limit_try_as_tuple(p)

GetWhitelistsParam_try_as_tuple(p) == Limit_try_as_tuple(p)

GetStatsParam_try_as_tuple(p) ==
    Ok(CASE p.variant = "Duration" -> <<"duration", p.val.s>>
         [] p.variant = "End" -> <<"end", p.val.s>>
         [] p.variant = "Event" -> <<"event", p.val.s>>
         [] p.variant = "Resolution" -> <<"resolution", p.val.s>>
         [] p.variant = "Start" -> <<"start", p.val.s>>)

GetEventsParam_try_as_tuple(p) ==
    Ok(CASE p.variant = "Pretty" -> <<"pretty", bool_to_string(p.val.b)>>
         [] p.variant = "Begin" -> <<"begin", p.val.s>>
         [] p.variant = "End" -> <<"end", p.val.s>>
         [] p.variant = "Ascending" -> <<"ascending", YesNo(p.val.b)>>
         [] p.variant = "Limit" -> <<"limit", usize_to_string(p.val.n)>>
         [] p.variant = "Event" -> <<"event", p.val.s>>
         [] p.variant = "List" -> <<"list", p.val.s>>
         [] p.variant = "Attachment" -> <<"attachment", p.val.s>>
         [] p.variant = "From" -> <<"from", p.val.s>>
         [] p.variant = "MessageId" -> <<"message_id", p.val.s>>
         [] p.variant = "Subject" -> <<"subject", p.val.s>>
         [] p.variant = "To" -> <<"to", p.val.s>>
         [] p.variant = "Size" -> <<"size", p.val.s>>
         [] p.variant = "Recipient" -> <<"recipient", p.val.s>>
         [] p.variant = "Recipients" -> <<"recipients", p.val.s>>
         [] p.variant = "Tags" -> <<"tags", p.val.s>>
         [] p.variant = "Severity" -> <<"severity", p.val.s>>)

SendMessageParam_try_as_tuple(p) ==
    CASE p.variant = "From" -> Ok(<<"from", p.val.s>>)
      [] p.variant = "To" -> Ok(<<"to", p.val.s>>)
      [] p.variant = "Cc" -> Ok(<<"cc", p.val.s>>)
      [] p.variant = "Bcc" -> Ok(<<"bcc", p.val.s>>)
      [] p.variant = "Subject" -> Ok(<<"subject", p.val.s>>)
      [] p.variant = "Text" -> Ok(<<"text", p.val.s>>)
      [] p.variant = "Html" -> Ok(<<"html", p.val.s>>)
      [] p.variant = "AmpHtml" -> Ok(<<"amp-html", p.val.s>>)
      [] p.variant = "Attachment" -> Ok(<<"attachment", p.val.s>>)
      [] p.variant = "Inline" -> Ok(<<"inline", p.val.s>>)
      [] p.variant = "Template" -> Ok(<<"template", p.val.s>>)
      [] p.variant = "TVersion" -> Ok(<<"t:version", p.val.s>>)
      [] p.variant = "TText" -> Ok(<<"t:text", p.val.s>>)
      [] p.variant = "OTag" -> Ok(<<"o:tag", p.val.s>>)
      [] p.variant = "ODkim" -> Ok(<<"o:dkim", YesNo(p.val.b)>>)
      [] p.variant = "ODeliveryTime" -> Ok(<<"o:delivery-time", p.val.s>>)
      [] p.variant = "ODeliveryTimeOptimizePeriod" ->
             Ok(<<"o:delivery-time-optimize-period", p.val.s>>)
      [] p.variant = "OTimeZoneLocalize" -> Ok(<<"o:time-zone-localize", p.val.s>>)
      [] p.variant = "OTestMode" -> Ok(<<"o:testmode", YesNo(p.val.b)>>)
      [] p.variant = "OTracking" -> Ok(<<"o:tracking", bool_to_string(p.val.b)>>)
      [] p.variant = "OTrackingClicks" -> Ok(<<"o:tracking-clicks", p.val.s>>)
      [] p.variant = "OTrackingOpens" -> Ok(<<"o:tracking-open", YesNo(p.val.b)>>)
      [] p.variant = "ORequireTls" -> Ok(<<"o:require-tls", YesNo(p.val.b)>>)
      [] p.variant = "OSkipVerification" -> Ok(<<"o:skip-verification", YesNo(p.val.b)>>)
      [] p.variant = "CustomHeader" -> Ok(<<"h:" \o p.val.key, p.val.value>>)
      [] p.variant = "CustomVariable" -> Ok(<<"v:" \o p.val.key, p.val.value>>)
      [] p.variant = "RecipientVariables" ->
             LET v == serde_json_to_string(p.val.x) IN
             IF v.ok THEN Ok(<<"recipient-variables", v.v>>)
             ELSE Err(InvalidJson("recipient-variables", v.err))

\* Param::try_as_tuple, dispatched on the implementing enum.
try_as_tuple(p) ==
    CASE p.enum = "GetBouncesParam" -> GetBouncesParam_try_as_tuple(p)
      [] p.enum = "GetComplaintsParam" -> GetComplaintsParam_try_as_tuple(p)
      [] p.enum = "GetEventsParam" -> GetEventsParam_try_as_tuple(p)
      [] p.enum = "GetStatsParam" -> GetStatsParam_try_as_tuple(p)
      [] p.enum = "GetUnsubscribesParam" -> GetUnsubscribesParam_try_as_tuple(p)
      [] p.enum = "GetWhitelistsParam" -> GetWhitelistsParam_try_as_tuple(p)
      [] p.enum = "SendMessageParam" -> SendMessageParam_try_as_tuple(p)

\* Variant: a failure gives the empty pair instead of aborting.
as_tuple_OrDefault(p) ==
    LET r == try_as_tuple(p) IN
    IF r.ok THEN [panic |-> FALSE, v |-> r.v] ELSE [panic |-> FALSE, v |-> <<"", "">>]

\* Param::as_tuple: try_as_tuple().unwrap(); a failure aborts the caller.
as_tuple(p) ==
    LET r == try_as_tuple(p) IN
    IF r.ok THEN [panic |-> FALSE, v |-> r.v] ELSE [panic |-> TRUE, v |-> <<"", "">>]

(***************************************************************************)
(* Parameter lists: the default list of each type, and add.                *)
(***************************************************************************)
ParamListTypes ==
    {"GetBouncesParamList", "GetComplaintsParamList", "GetEventsParamList",
     "GetStatsParamList", "GetUnsubscribesParamList", "GetWhitelistsParamList",
     "SendMessageParamList"}

Default(ty) ==
    [ty |-> ty,
     values |->
         CASE ty = "GetEventsParamList" ->
                  << P("GetEventsParam", "Pretty", PBool(FALSE)) >>
           [] ty = "GetStatsParamList" ->
                  << P("GetStatsParam", "Event", PStr("accepted")),
                     P("GetStatsParam", "Event", PStr("delivered")),
                     P("GetStatsParam", "Event", PStr("failed")) >>
           [] OTHER -> << >>]

\* Variant: the new parameter goes to the front of the list.
add_Front(list, param) == [list EXCEPT !.values = <<param>> \o @]

add(list, param) == [list EXCEPT !.values = Append(@, param)]

(***************************************************************************)
(* Results of a client operation: Ok(value) or one ClientError.            *)
(***************************************************************************)
ROk(v) == [k |-> "Ok", v |-> v]
ApiError(e) == [k |-> "ApiError", e |-> e]
HttpError(status, raw) == [k |-> "HttpError", status |-> status, raw |-> raw]
ParamError(e) == [k |-> "ParamError", e |-> e]
ParseResponse(e) == [k |-> "ParseResponse", e |-> e]
ReadResponse(e) == [k |-> "ReadResponse", e |-> e]

\* What the code after request.call() does with the response: the result
\* it returns and the decoders it ran, in order.
Outcome(ret, tried) == [ret |-> ret, tried |-> tried]

\* Variant: a body that does not decode yields an empty success value.
from_str_Default(T, raw, tried) ==
    LET d == Decode(T, raw) IN
    Outcome(IF d.ok THEN ROk(d.v) ELSE ROk(VNone), Append(tried, T.name))

\* serde_json::from_str::<T>(&raw).map_err(ParseResponse)
from_str(T, raw, tried) ==
    LET d == Decode(T, raw) IN
    Outcome(IF d.ok THEN ROk(d.v) ELSE ParseResponse(d.err), Append(tried, T.name))

\* Variant: the error envelope is never consulted.
ClassifyTyped_NoEnvelope(T, response) ==
    IF ~response.read.ok THEN Outcome(ReadResponse(response.read.err), << >>)
    ELSE LET raw == response.read.text IN
         IF response.status # 200
         THEN Outcome(HttpError(response.status, raw), << >>)
         ELSE from_str(T, raw, << >>)

\* Variant: no HttpError fallback; the body goes on to the success decoder.
ClassifyTyped_FallThrough(T, response) ==
    IF ~response.read.ok THEN Outcome(ReadResponse(response.read.err), << >>)
    ELSE LET raw == response.read.text IN
         IF response.status # 200
         THEN LET error == ErrorResponse(raw) IN
              IF error.ok
              THEN Outcome(ApiError(error.v), <<"ErrorResponse">>)
              ELSE from_str(T, raw, <<"ErrorResponse">>)
         ELSE from_str(T, raw, << >>)

\* Variant: the error envelope is consulted whatever the status.
ClassifyTyped_EnvelopeAlways(T, response) ==
    IF ~response.read.ok THEN Outcome(ReadResponse(response.read.err), << >>)
    ELSE LET raw == response.read.text
             error == ErrorResponse(raw)
         IN  IF error.ok
             THEN Outcome(ApiError(error.v), <<"ErrorResponse">>)
             ELSE IF response.status # 200
             THEN Outcome(HttpError(response.status, raw), <<"ErrorResponse">>)
             ELSE from_str(T, raw, <<"ErrorResponse">>)

\* Variant: the status is acted on before the result of reading the body.
ClassifyTyped_StatusFirst(T, response) ==
    IF response.status # 200
    THEN LET raw == response.read.text
             error == ErrorResponse(raw)
         IN  IF response.read.ok /\ error.ok
             THEN Outcome(ApiError(error.v), <<"ErrorResponse">>)
             ELSE Outcome(HttpError(response.status, raw), <<"ErrorResponse">>)
    ELSE IF ~response.read.ok THEN Outcome(ReadResponse(response.read.err), << >>)
    ELSE from_str(T, response.read.text, << >>)

\* The tail shared, line for line, by the seven typed endpoint methods.
ClassifyTyped(T, response) ==
    IF ~response.read.ok THEN Outcome(ReadResponse(response.read.err), << >>)
    ELSE LET raw == response.read.text IN
         IF response.status # 200
         THEN LET error == ErrorResponse(raw) IN
              IF error.ok
              THEN Outcome(ApiError(error.v), <<"ErrorResponse">>)
              ELSE Outcome(HttpError(response.status, raw), <<"ErrorResponse">>)
         ELSE from_str(T, raw, << >>)

\* The tail of Client::call: no HttpError fallback.
ClassifyCall(T, response) ==
    IF ~response.read.ok THEN Outcome(ReadResponse(response.read.err), << >>)
    ELSE LET raw == response.read.text IN
         IF response.status # 200
         THEN LET error == ErrorResponse(raw) IN
              IF error.ok
              THEN Outcome(ApiError(error.v), <<"ErrorResponse">>)
              ELSE from_str(T, raw, <<"ErrorResponse">>)
         ELSE from_str(T, raw, << >>)

(***************************************************************************)
(* Bounds and input sets.                                                  *)
(***************************************************************************)
\* How many parameters a caller adds to a default list.
MaxAdds == 2

Threads == {"t1"}

Credentials ==
    { [api_key |-> "key-1", domain |-> "example.com"],
      [api_key |-> "key-2", domain |-> "mg.test"] }

ParamChoices(ty) ==
    CASE ty = "GetBouncesParamList" ->
             { P("GetBouncesParam", "Limit", PUsize(n)) : n \in {1, 10001} }
      [] ty = "GetComplaintsParamList" ->
             { P("GetComplaintsParam", "Limit", PUsize(n)) : n \in {1, 10001} }
      [] ty = "GetUnsubscribesParamList" ->
             { P("GetUnsubscribesParam", "Limit", PUsize(n)) : n \in {0, 25} }
      [] ty = "GetWhitelistsParamList" ->
             { P("GetWhitelistsParam", "Limit", PUsize(n)) : n \in {1, 100} }
      [] ty = "GetStatsParamList" ->
             { P("GetStatsParam", "Event", PStr("opened")),
               P("GetStatsParam", "Resolution", PStr("month")) }
      [] ty = "GetEventsParamList" ->
             { P("GetEventsParam", "Pretty", PBool(TRUE)),
               P("GetEventsParam", "Ascending", PBool(TRUE)),
               P("GetEventsParam", "Limit", PUsize(300)),
               P("GetEventsParam", "Event", PStr("failed")) }
      [] ty = "SendMessageParamList" ->
             { P("SendMessageParam", "Text", PStr("test message")),
               P("SendMessageParam", "To", PStr("bob@host.com")),
               P("SendMessageParam", "OTestMode", PBool(TRUE)),
               P("SendMessageParam", "CustomHeader", PKeyValue("X-Tag", "a")),
               P("SendMessageParam", "RecipientVariables", PRef(SStr(<<"{", "}">>))) }

ObjOf(pairs) ==
    JObj([key \in {pairs[i][1] : i \in DOMAIN pairs} |->
              pairs[CHOOSE i \in DOMAIN pairs : pairs[i][1] = key][2]])

NextUrl == "https://api.mailgun.net/v3/example.com/bounces?page=next&address=b"
PreviousUrl == "https://api.mailgun.net/v3/example.com/bounces?page=previous&address=a"

PagingMin == ObjOf(<< <<"next", JStr(NextUrl)>>, <<"previous", JStr(PreviousUrl)>> >>)
PagingFull ==
    ObjOf(<< <<"first", JStr(PreviousUrl)>>, <<"next", JStr(NextUrl)>>,
             <<"previous", JStr(PreviousUrl)>>, <<"last", JNull>> >>)
PagingNoNext == ObjOf(<< <<"previous", JStr(PreviousUrl)>> >>)

ListOf(items, paging) == ObjOf(<< <<"items", JArr(items)>>, <<"paging", paging>> >>)

BounceJson ==
    ObjOf(<< <<"address", JStr("a@b.c")>>, <<"code", JStr("550")>>,
             <<"error", JStr("No such mailbox")>>, <<"created_at", JStr("Fri, 21 Oct 2011")>> >>)
BounceNoCodeJson ==
    ObjOf(<< <<"address", JStr("a@b.c")>>,
             <<"error", JStr("No such mailbox")>>, <<"created_at", JStr("Fri, 21 Oct 2011")>> >>)
ComplaintJson ==
    ObjOf(<< <<"address", JStr("a@b.c")>>, <<"tag", JStr("*")>>,
             <<"created_at", JStr("Fri, 21 Oct 2011")>> >>)
WhitelistJson ==
    ObjOf(<< <<"value", JStr("b.c")>>, <<"reason", JStr("trusted")>>,
             <<"type", JStr("domain")>>, <<"createdAt", JStr("Fri, 21 Oct 2011")>> >>)
WhitelistSnakeJson ==
    ObjOf(<< <<"value", JStr("b.c")>>, <<"reason", JStr("trusted")>>,
             <<"type", JStr("domain")>>, <<"created_at", JStr("Fri, 21 Oct 2011")>> >>)

EventMinJson ==
    ObjOf(<< <<"event", JStr("failed")>>, <<"id", JStr("e1")>>, <<"timestamp", JFloat(1521472262)>>,
             <<"message", ObjOf(<< >>)>>, <<"recipient", JStr("a@b.c")>> >>)
EventRichJson ==
    ObjOf(<< <<"event", JStr("failed")>>, <<"id", JStr("e2")>>, <<"timestamp", JNum(1521472262)>>,
             <<"log-level", JStr("error")>>, <<"severity", JStr("permanent")>>,
             <<"method", JNull>>,
             <<"flags", ObjOf(<< <<"is-test-mode", JBool(TRUE)>> >>)>>,
             <<"delivery-status",
               ObjOf(<< <<"code", JNum(550)>>, <<"attempt-no", JNum(1)>>,
                        <<"session-seconds", JFloat(0)>> >>)>>,
             <<"message",
               ObjOf(<< <<"headers", ObjOf(<< <<"message-id", JStr("m1")>> >>)>>,
                        <<"recipients", JArr(<< JStr("a@b.c") >>)>>,
                        <<"size", JNum(512)>> >>)>>,
             <<"recipient", JStr("a@b.c")>>,
             <<"tags", JArr(<< >>)>>,
             <<"user-variables", ObjOf(<< >>)>> >>)
EventNoRecipientJson ==
    ObjOf(<< <<"event", JStr("failed")>>, <<"id", JStr("e3")>>, <<"timestamp", JNum(1521472262)>>,
             <<"message", ObjOf(<< >>)>> >>)
EventBadAttemptJson ==
    ObjOf(<< <<"event", JStr("failed")>>, <<"id", JStr("e4")>>, <<"timestamp", JNum(1521472262)>>,
             <<"delivery-status", ObjOf(<< <<"attempt-no", JNum(-1)>> >>)>>,
             <<"message", ObjOf(<< >>)>>, <<"recipient", JStr("a@b.c")>> >>)

StatCount3(a, b, c) == ObjOf(<< <<a, JNum(1)>>, <<b, JNum(2)>>, <<c, JNum(3)>> >>)
StatItemJson(total) ==
    ObjOf(<< <<"time", JStr("Mon, 16 Mar 2015")>>,
             <<"accepted",
               ObjOf(<< <<"outgoing", JNum(1)>>, <<"incoming", JNum(2)>>, <<"total", total>> >>)>>,
             <<"delivered", StatCount3("smtp", "http", "total")>>,
             <<"failed",
               ObjOf(<< <<"permanent",
                          ObjOf(<< <<"bounce", JNum(0)>>, <<"delayed-bounce", JNum(0)>>,
                                   <<"suppress-bounce", JNum(0)>>,
                                   <<"suppress-unsubscribe", JNum(0)>>,
                                   <<"suppress-complaint", JNum(0)>>, <<"total", JNum(0)>> >>)>>,
                        <<"temporary", ObjOf(<< <<"espblock", JNum(0)>> >>)>> >>)>> >>)
StatsJson(items) ==
    ObjOf(<< <<"end", JStr("Fri, 01 Apr 2012")>>, <<"resolution", JStr("month")>>,
             <<"start", JStr("Tue, 14 Feb 2012")>>, <<"stats", JArr(items)>> >>)

Bodies ==
    { JText("<html>502 Bad Gateway</html>"),
      JStr("Forbidden"),
      JArr(<< >>),
      ObjOf(<< >>),
      ObjOf(<< <<"error", JStr("bad request")>> >>),
      ObjOf(<< <<"Error", JStr("Bad Request")>> >>),
      ObjOf(<< <<"message", JStr("no such domain")>> >>),
      ObjOf(<< <<"error", JStr("bad request")>>, <<"message", JStr("no such domain")>> >>),
      ObjOf(<< <<"error", JStr("bad request")>>, <<"Error", JStr("Bad Request")>> >>),
      ObjOf(<< <<"error", JNum(5)>>, <<"message", JStr("no such domain")>> >>),
      ObjOf(<< <<"Error", JStr("Bad Request")>>, <<"message", JStr("no such domain")>> >>),
      ObjOf(<< <<"error", JStr("bad request")>>, <<"Error", JStr("Bad Request")>>,
               <<"message", JStr("no such domain")>> >>),
      ObjOf(<< <<"error", JNum(5)>> >>),
      ObjOf(<< <<"message", JNull>> >>),
      ListOf(<< >>, PagingMin),
      ListOf(<< >>, PagingNoNext),
      ObjOf(<< <<"items", JArr(<< >>)>> >>),
      ObjOf(<< <<"items", JArr(<< >>)>>, <<"paging", PagingMin>>,
               <<"message", JStr("queue is busy")>> >>),
      ListOf(<< BounceJson >>, PagingFull),
      ListOf(<< BounceJson, BounceNoCodeJson >>, PagingMin),
      ListOf(<< ComplaintJson >>, PagingMin),
      ListOf(<< WhitelistJson >>, PagingFull),
      ListOf(<< WhitelistSnakeJson >>, PagingMin),
      ListOf(<< EventMinJson >>, PagingMin),
      ListOf(<< EventRichJson, EventMinJson >>, PagingFull),
      ListOf(<< EventNoRecipientJson >>, PagingMin),
      ListOf(<< EventBadAttemptJson >>, PagingMin),
      StatsJson(<< >>),
      StatsJson(<< StatItemJson(JNum(3)) >>),
      StatsJson(<< StatItemJson(JFloat(3)) >>),
      ObjOf(<< <<"end", JStr("Fri, 01 Apr 2012")>>, <<"resolution", JStr("month")>>,
               <<"stats", JArr(<< >>)>> >>),
      ObjOf(<< <<"id", JStr("<2015.1@example.com>")>>, <<"message", JStr("Queued. Thank you.")>> >>),
      ObjOf(<< <<"id", JStr("<2015.1@example.com>")>> >>) }

Statuses == {200, 201, 404}

\* What the transport hands back: a status, and the body text or the I/O
\* error of reading it.
Responses ==
    [status : Statuses,
     read : {[ok |-> TRUE, text |-> b, err |-> ""] : b \in Bodies}
            \cup {[ok |-> FALSE, text |-> JText(""), err |-> "connection reset"]}]

Urls == {NextUrl, PreviousUrl}

ResponseType(name) ==
    CASE name = "GetBouncesResponse" -> GetBouncesResponse
      [] name = "GetComplaintsResponse" -> GetComplaintsResponse
      [] name = "GetEventsResponse" -> GetEventsResponse
      [] name = "GetStatsResponse" -> GetStatsResponse
      [] name = "GetUnsubscribesResponse" -> GetUnsubscribesResponse
      [] name = "GetWhitelistsResponse" -> GetWhitelistsResponse
      [] name = "SendMessageResponse" -> SendMessageResponse

ResponseTypes ==
    {"GetBouncesResponse", "GetComplaintsResponse", "GetEventsResponse", "GetStatsResponse",
     "GetUnsubscribesResponse", "GetWhitelistsResponse", "SendMessageResponse"}

(***************************************************************************)
(* State.  client holds the credentials; calls[t] is the invocation thread *)
(* t is in: the list it is building, the request under construction, the   *)
(* requests issued, the response, the decoders run and the results         *)
(* returned.                                                               *)
(***************************************************************************)
NoList == [ty |-> "none", values |-> << >>]
NoRequest == [method |-> "", url |-> "", auth |-> << >>, query |-> << >>]
NoResponse == [status |-> 0, read |-> [ok |-> FALSE, text |-> JText(""), err |-> ""]]

Idle ==
    [pc |-> "idle", op |-> "none", T |-> "none", list |-> NoList, arg |-> "", i |-> 0,
     request |-> NoRequest, sent |-> << >>, response |-> NoResponse,
     tried |-> << >>, returns |-> << >>]

\* Client::new
new(api_key, domain) == [api_key |-> api_key, domain |-> domain]

Init ==
    /\ \E c \in Credentials : client = new(c.api_key, c.domain)
    /\ calls = [t \in Threads |-> Idle]

Set(t, rec) == calls' = [calls EXCEPT ![t] = rec]

\* The caller makes a default list ...
NewList(t) ==
    /\ calls[t].pc = "idle"
    /\ \E ty \in ParamListTypes :
           Set(t, [calls[t] EXCEPT !.pc = "building", !.list = Default(ty)])
    /\ UNCHANGED client

\* The parameters tests::send_message adds to the default list, in its order.
tests_send_message(domain) ==
    << P("SendMessageParam", "Text", PStr("test message")),
       P("SendMessageParam", "To", PStr("rrider@pfgcapital.com")),
       P("SendMessageParam", "From", PStr("Test <test@" \o domain \o ">")),
       P("SendMessageParam", "OTestMode", PBool(TRUE)) >>

\* ... and adds parameters to it: up to MaxAdds parameters of its choice, or
\* the next parameter of the list of tests::send_message.
Add(t) ==
    /\ calls[t].pc = "building"
    /\ \/ /\ Len(calls[t].list.values) < Len(Default(calls[t].list.ty).values) + MaxAdds
          /\ \E param \in ParamChoices(calls[t].list.ty) :
                 Set(t, [calls[t] EXCEPT !.list = add(@, param)])
       \/ LET script == tests_send_message(client.domain)
              n == Len(calls[t].list.values) IN
          /\ calls[t].list.ty = "SendMessageParamList"
          /\ n < Len(script)
          /\ calls[t].list.values = SubSeq(script, 1, n)
          /\ Set(t, [calls[t] EXCEPT !.list = add(@, script[n + 1])])
    /\ UNCHANGED client

\* Variant: the key is given as the user name and "api" as the password.
Build_AuthSwapped(t, op, method, path, listTy, T) ==
    /\ calls[t].pc = "building"
    /\ calls[t].list.ty = listTy
    /\ Set(t, [calls[t] EXCEPT
                 !.pc = "render", !.op = op, !.T = T, !.i = 1,
                 !.request = [method |-> method,
                              url |-> MAILGUN_API_BASE \o "/" \o client.domain \o "/" \o path,
                              auth |-> <<client.api_key, "api">>,
                              query |-> << >>]])
    /\ UNCHANGED client

\* let url = format!(..); let mut request = ureq::get/post(&url); request.auth("api", ..)
Build(t, op, method, path, listTy, T) ==
    /\ calls[t].pc = "building"
    /\ calls[t].list.ty = listTy
    /\ Set(t, [calls[t] EXCEPT
                 !.pc = "render", !.op = op, !.T = T, !.i = 1,
                 !.request = [method |-> method,
                              url |-> MAILGUN_API_BASE \o "/" \o client.domain \o "/" \o path,
                              auth |-> <<"api", client.api_key>>,
                              query |-> << >>]])
    /\ UNCHANGED client

\* A query with the value of an existing key replaced, or the pair appended.
SetQuery(query, pair) ==
    IF \E j \in DOMAIN query : query[j][1] = pair[1]
    THEN [j \in DOMAIN query |-> IF query[j][1] = pair[1] THEN pair ELSE query[j]]
    ELSE Append(query, pair)

\* Variant: a repeated key overwrites the earlier pair.
QueryAsTuple_ReplaceKey(t) ==
    /\ calls[t].pc = "render"
    /\ calls[t].i <= Len(calls[t].list.values)
    /\ LET r == as_tuple(calls[t].list.values[calls[t].i]) IN
       IF r.panic
       THEN Set(t, [calls[t] EXCEPT !.pc = "panicked"])
       ELSE Set(t, [calls[t] EXCEPT !.i = @ + 1, !.request.query = SetQuery(@, r.v)])
    /\ UNCHANGED client

\* for (key, value) in params.values.iter().map(|param| param.as_tuple()) { request.query(..) }
QueryAsTuple(t) ==
    /\ calls[t].pc = "render"
    /\ calls[t].i <= Len(calls[t].list.values)
    /\ LET r == as_tuple(calls[t].list.values[calls[t].i]) IN
       IF r.panic
       THEN Set(t, [calls[t] EXCEPT !.pc = "panicked"])
       ELSE Set(t, [calls[t] EXCEPT !.i = @ + 1, !.request.query = Append(@, r.v)])
    /\ UNCHANGED client

\* Variant: each rendered pair goes in front of the pairs already attached.
QueryTryAsTuple_Prepend(t) ==
    /\ calls[t].pc = "render"
    /\ calls[t].i <= Len(calls[t].list.values)
    /\ LET r == try_as_tuple(calls[t].list.values[calls[t].i]) IN
       IF ~r.ok
       THEN Set(t, [calls[t] EXCEPT !.pc = "done", !.returns = Append(@, ParamError(r.err))])
       ELSE Set(t, [calls[t] EXCEPT !.i = @ + 1, !.request.query = <<r.v>> \o @])
    /\ UNCHANGED client

\* for param in params.values { let (key, value) = param.try_as_tuple()?; request.query(..) }
QueryTryAsTuple(t) ==
    /\ calls[t].pc = "render"
    /\ calls[t].i <= Len(calls[t].list.values)
    /\ LET r == try_as_tuple(calls[t].list.values[calls[t].i]) IN
       IF ~r.ok
       THEN Set(t, [calls[t] EXCEPT !.pc = "done", !.returns = Append(@, ParamError(r.err))])
       ELSE Set(t, [calls[t] EXCEPT !.i = @ + 1, !.request.query = Append(@, r.v)])
    /\ UNCHANGED client

\* Variant: the request under construction is one slot shared by the threads
\* using the client, so what goes out is what any of them built last.
Call_SharedRequest(t) ==
    /\ calls[t].pc = "render"
    /\ calls[t].i > Len(calls[t].list.values)
    /\ \E u \in DOMAIN calls :
           /\ calls[u].pc = "render"
           /\ Set(t, [calls[t] EXCEPT !.pc = "waiting", !.sent = Append(@, calls[u].request)])
    /\ UNCHANGED client

\* let response = request.call();  -- the request goes out
Call(t) ==
    /\ calls[t].pc = "render"
    /\ calls[t].i > Len(calls[t].list.values)
    /\ Set(t, [calls[t] EXCEPT !.pc = "waiting", !.sent = Append(@, calls[t].request)])
    /\ UNCHANGED client

\* The transport delivers the response.
Respond(t) ==
    /\ calls[t].pc = "waiting"
    /\ \E r \in Responses : Set(t, [calls[t] EXCEPT !.pc = "received", !.response = r])
    /\ UNCHANGED client

\* Variant: a failure reported by the server sends the request again.
Finish_Retry(t, outcome) ==
    /\ calls[t].pc = "received"
    /\ IF outcome.ret.k \in {"HttpError", "ReadResponse"}
       THEN Set(t, [calls[t] EXCEPT !.pc = "render"])
       ELSE Set(t, [calls[t] EXCEPT !.pc = "done", !.tried = outcome.tried,
                                    !.returns = Append(@, outcome.ret)])
    /\ UNCHANGED client

\* status(), into_string() and the classification, up to the return.
Finish(t, outcome) ==
    /\ calls[t].pc = "received"
    /\ Set(t, [calls[t] EXCEPT !.pc = "done", !.tried = outcome.tried,
                               !.returns = Append(@, outcome.ret)])
    /\ UNCHANGED client

\* Variant: the key is dropped from the client once a failed call returns.
Return_ClearKey(t) ==
    /\ calls[t].pc = "done"
    /\ Set(t, Idle)
    /\ client' = IF calls[t].returns[1].k = "Ok" THEN client
                 ELSE [client EXCEPT !.api_key = ""]

\* The caller takes the result.
Return(t) ==
    /\ calls[t].pc = "done"
    /\ Set(t, Idle)
    /\ UNCHANGED client

Typed(t, op, method, path, listTy, T) ==
    \/ Build(t, op, method, path, listTy, T.name)
    \/ /\ calls[t].op = op
       /\ \/ QueryAsTuple(t)
          \/ Call(t)
          \/ Finish(t, ClassifyTyped(T, calls[t].response))

get_bounces(t) ==
    Typed(t, "get_bounces", "GET", "bounces", "GetBouncesParamList", GetBouncesResponse)

get_complaints(t) ==
    Typed(t, "get_complaints", "GET", "complaints", "GetComplaintsParamList",
          GetComplaintsResponse)

get_events(t) ==
    Typed(t, "get_events", "GET", "events", "GetEventsParamList", GetEventsResponse)

\* Variant: the statistics are asked of stats rather than stats/total.
get_stats_Path(t) ==
    Typed(t, "get_stats", "GET", "stats", "GetStatsParamList", GetStatsResponse)

get_stats(t) ==
    Typed(t, "get_stats", "GET", "stats/total", "GetStatsParamList", GetStatsResponse)

get_unsubscribes(t) ==
    Typed(t, "get_unsubscribes", "GET", "unsubscribes", "GetUnsubscribesParamList",
          GetUnsubscribesResponse)

get_whitelists(t) ==
    Typed(t, "get_whitelists", "GET", "whitelists", "GetWhitelistsParamList",
          GetWhitelistsResponse)

send_message(t) ==
    \/ Build(t, "send_message", "POST", "messages", "SendMessageParamList",
             "SendMessageResponse")
    \/ /\ calls[t].op = "send_message"
       /\ \/ QueryTryAsTuple(t)
          \/ Call(t)
          \/ Finish(t, ClassifyTyped(SendMessageResponse, calls[t].response))

\* Variant: call treats its argument like an endpoint of the domain and asks
\* for the events default.
call_Endpoint(t) ==
    \/ /\ calls[t].pc = "idle"
       /\ \E url \in Urls, T \in ResponseTypes :
              Set(t, [calls[t] EXCEPT
                        !.pc = "render", !.op = "call", !.T = T, !.arg = url, !.i = 1,
                        !.request = [method |-> "GET",
                                     url |-> IF T = "GetEventsResponse" THEN url
                                             ELSE MAILGUN_API_BASE \o "/" \o client.domain
                                                      \o "/" \o url,
                                     auth |-> <<"api", client.api_key>>,
                                     query |-> IF T = "GetEventsResponse"
                                               THEN << <<"pretty", "false">> >>
                                               ELSE << >>]])
       /\ UNCHANGED client
    \/ /\ calls[t].op = "call"
       /\ \/ Call(t)
          \/ Finish(t, ClassifyCall(ResponseType(calls[t].T), calls[t].response))

call(t) ==
    \/ /\ calls[t].pc = "idle"
       /\ \E url \in Urls, T \in ResponseTypes :
              Set(t, [calls[t] EXCEPT
                        !.pc = "render", !.op = "call", !.T = T, !.arg = url, !.i = 1,
                        !.request = [method |-> "GET", url |-> url,
                                     auth |-> <<"api", client.api_key>>, query |-> << >>]])
       /\ UNCHANGED client
    \/ /\ calls[t].op = "call"
       /\ \/ Call(t)
          \/ Finish(t, ClassifyCall(ResponseType(calls[t].T), calls[t].response))

Next ==
    \E t \in Threads :
        \/ NewList(t)
        \/ Add(t)
        \/ get_bounces(t)
        \/ get_complaints(t)
        \/ get_events(t)
        \/ get_stats(t)
        \/ get_unsubscribes(t)
        \/ get_whitelists(t)
        \/ send_message(t)
        \/ call(t)
        \/ Respond(t)
        \/ Return(t)

Spec == Init /\ [][Next]_vars

(***************************************************************************)
(* Properties.                                                             *)
(***************************************************************************)
(***************************************************************************)
(* One client shared by two threads (Client is Sync: its methods take      *)
(* &self), each making calls of its own, interleaved step by step.  The    *)
(* callers keep to short lists, one URL and three responses.               *)
(***************************************************************************)
Workers == {"t1", "t2"}

SharedResponses ==
    { [status |-> 200,
       read |-> [ok |-> TRUE, text |-> ListOf(<< BounceJson >>, PagingFull), err |-> ""]],
      [status |-> 404,
       read |-> [ok |-> TRUE, text |-> ObjOf(<< <<"error", JStr("bad request")>> >>),
                 err |-> ""]],
      [status |-> 404,
       read |-> [ok |-> FALSE, text |-> JText(""), err |-> "connection reset"]] }

\* The inputs a thread of the shared client uses.
SharedInputs(inv) ==
    /\ \/ Len(inv.list.values) <= Len(Default(inv.list.ty).values) + 1
       \/ /\ inv.list.ty = "SendMessageParamList"
          /\ Len(inv.list.values) <= Len(tests_send_message(client.domain))
          /\ inv.list.values
                 = SubSeq(tests_send_message(client.domain), 1, Len(inv.list.values))
    /\ inv.response \in SharedResponses \cup {NoResponse}
    /\ inv.arg \in {"", NextUrl}

InitShared ==
    /\ client = new("key-1", "example.com")
    /\ calls = [t \in Workers |-> Idle]

NextShared ==
    \E t \in Workers :
        \/ NewList(t) /\ SharedInputs(calls'[t])
        \/ Add(t) /\ SharedInputs(calls'[t])
        \/ get_bounces(t) /\ SharedInputs(calls'[t])
        \/ get_complaints(t) /\ SharedInputs(calls'[t])
        \/ get_events(t) /\ SharedInputs(calls'[t])
        \/ get_stats(t) /\ SharedInputs(calls'[t])
        \/ get_unsubscribes(t) /\ SharedInputs(calls'[t])
        \/ get_whitelists(t) /\ SharedInputs(calls'[t])
        \/ send_message(t) /\ SharedInputs(calls'[t])
        \/ call(t) /\ SharedInputs(calls'[t])
        \/ Respond(t) /\ SharedInputs(calls'[t])
        \/ Return(t) /\ SharedInputs(calls'[t])

SpecShared == InitShared /\ [][NextShared]_vars

(***************************************************************************)
(* Rendering on its own: a caller holds one parameter of any of the seven  *)
(* enums and calls try_as_tuple or as_tuple on it.                         *)
(***************************************************************************)
Limits == {0, 1, 300, 10000, 10001, 1000000}

Strs == {"", "bob@host.com", "yes"}

LimitOnly ==
    {"GetBouncesParam", "GetComplaintsParam", "GetUnsubscribesParam", "GetWhitelistsParam"}

GetStatsParam_Str == {"Duration", "End", "Event", "Resolution", "Start"}

GetEventsParam_Str ==
    {"Begin", "End", "Event", "List", "Attachment", "From", "MessageId", "Subject", "To",
     "Size", "Recipient", "Recipients", "Tags", "Severity"}

GetEventsParam_Bool == {"Pretty", "Ascending"}

SendMessageParam_Str ==
    {"From", "To", "Cc", "Bcc", "Subject", "Text", "Html", "AmpHtml", "Attachment",
     "Inline", "Template", "TVersion", "TText", "OTag", "ODeliveryTime",
     "ODeliveryTimeOptimizePeriod", "OTimeZoneLocalize", "OTrackingClicks"}

SendMessageParam_Bool ==
    {"ODkim", "OTestMode", "OTracking", "OTrackingOpens", "ORequireTls",
     "OSkipVerification"}

SendMessageParam_KeyValue == {"CustomHeader", "CustomVariable"}

Bob == SStr(<<"b", "@", "h", ".", "c">>)

\* Values for RecipientVariables: strings with and without characters that
\* are escaped, numbers, a list, maps keyed by address and by number, maps
\* with a key that is a list, and values holding a float that is not finite.
Serializables ==
    { SStr(<<"{", "}">>), SStr(<< >>), SStr(<<"a", "\"", "b">>), SStr(<<"\\", "\n">>),
      SInt(0), SInt(0 - 12), SInt(305), SFinite(15), SFinite(0 - 5), SFinite(1200),
      SNaN, SInfinity, SBool(TRUE), SBool(FALSE), SNone,
      SVec(<< >>), SVec(<<SInt(1), SStr(<<"x">>), SNone>>),
      SMap(<< >>),
      SMap(<<SEntry(Bob, SMap(<<SEntry(SStr(<<"i", "d">>), SInt(1)),
                                SEntry(SStr(<<"n">>), SStr(<<"B", "o">>))>>))>>),
      SMap(<<SEntry(SStr(<<"a">>), SVec(<<SInt(1), SInt(2)>>)),
             SEntry(Bob, SFinite(25))>>),
      SMap(<<SEntry(SInt(7), SStr(<<"x">>))>>),
      SMap(<<SEntry(SVec(<<SInt(1), SInt(2)>>), SStr(<<"x">>))>>),
      SMap(<<SEntry(Bob, SInt(1)), SEntry(SNone, SInt(2))>>),
      SVec(<<SInt(1), SMap(<<SEntry(SVec(<< >>), SInt(2))>>)>>),
      SMap(<<SEntry(Bob, SMap(<<SEntry(SStr(<<"s">>), SNaN)>>))>>),
      SVec(<<SFinite(15), SInfinity>>) }

AllParams ==
    { P(e, "Limit", PUsize(n)) : e \in LimitOnly, n \in Limits }
    \cup { P("GetStatsParam", v, PStr(s)) : v \in GetStatsParam_Str, s \in Strs }
    \cup { P("GetEventsParam", v, PStr(s)) : v \in GetEventsParam_Str, s \in Strs }
    \cup { P("GetEventsParam", v, PBool(b)) : v \in GetEventsParam_Bool, b \in BOOLEAN }
    \cup { P("GetEventsParam", "Limit", PUsize(n)) : n \in Limits }
    \cup { P("SendMessageParam", v, PStr(s)) : v \in SendMessageParam_Str, s \in Strs }
    \cup { P("SendMessageParam", v, PBool(b)) : v \in SendMessageParam_Bool, b \in BOOLEAN }
    \cup { P("SendMessageParam", v, PKeyValue(key, s)) :
               v \in SendMessageParam_KeyValue, key \in {"", "X-Tag"}, s \in Strs }
    \cup { P("SendMessageParam", "RecipientVariables", PRef(x)) : x \in Serializables }

\* The caller holds param and has made no call on it yet.
Holding(param) == [pc |-> "holding", param |-> param, fn |-> "none", result |-> Err("none")]

InitParam ==
    /\ \E c \in Credentials : client = new(c.api_key, c.domain)
    /\ \E param \in AllParams : calls = [t \in Threads |-> Holding(param)]

\* param.try_as_tuple()
TryAsTuple(t) ==
    /\ calls[t].pc = "holding"
    /\ Set(t, [calls[t] EXCEPT !.pc = "returned", !.fn = "try_as_tuple",
                               !.result = try_as_tuple(calls[t].param)])
    /\ UNCHANGED client

\* param.as_tuple(): the pair, or the panic of unwrap().
AsTuple(t) ==
    /\ calls[t].pc = "holding"
    /\ LET r == as_tuple(calls[t].param) IN
       Set(t, [calls[t] EXCEPT !.pc = IF r.panic THEN "panicked" ELSE "returned",
                               !.fn = "as_tuple",
                               !.result = IF r.panic THEN Err("panic") ELSE Ok(r.v)])
    /\ UNCHANGED client

\* The caller goes on with the parameter; rendering borrows it.
Release(t) ==
    /\ calls[t].pc = "returned"
    /\ Set(t, Holding(calls[t].param))
    /\ UNCHANGED client

NextParam == \E t \in Threads : TryAsTuple(t) \/ AsTuple(t) \/ Release(t)

SpecParam == InitParam /\ [][NextParam]_vars

TypedOps ==
    {"get_bounces", "get_complaints", "get_events", "get_stats", "get_unsubscribes",
     "get_whitelists", "send_message"}

\* The invocation of t has returned after a response came back.
Answered(t) == calls[t].pc = "done" /\ calls[t].sent # << >>

\* The body text of a response that was read.
Raw(t) == calls[t].response.read.text

\* The text an ErrorResponse carries.
ErrorText(e) == IF e.name = "WithError" THEN e.f.error.s ELSE e.f.message.s

\* The strings a JSON object holds under the keys of the error envelope.
EnvelopeTexts(j) ==
    IF j.k # "obj" THEN {}
    ELSE {j.o[key].s : key \in {x \in {"error", "Error", "message"} \cap DOMAIN j.o :
                                    j.o[x].k = "str"}}

MessageBody == ObjOf(<< <<"message", JStr("no such domain")>> >>)

\* C1: a typed endpoint method that gets a status other than 200 with a body
\* that decodes as the error envelope returns exactly ApiError carrying the
\* decoded error, whose text is the string the body holds under error, Error
\* or message; it returns no other error kind and no success value.
C1_ApiErrorOnEnvelope ==
    \A t \in Threads :
        (/\ Answered(t)
         /\ calls[t].op \in TypedOps
         /\ calls[t].response.read.ok
         /\ calls[t].response.status # 200
         /\ ErrorResponse(Raw(t)).ok)
        => /\ calls[t].returns = << ApiError(ErrorResponse(Raw(t)).v) >>
           /\ ErrorText(calls[t].returns[1].e) \in EnvelopeTexts(Raw(t))

C1_Witness ==
    \E t \in Threads :
        /\ Answered(t)
        /\ calls[t].op = "get_bounces"
        /\ calls[t].response.status = 404
        /\ calls[t].response.read.ok
        /\ Raw(t) = MessageBody
        /\ calls[t].returns[1].k = "ApiError"
        /\ ErrorText(calls[t].returns[1].e) = "no such domain"

\* C2: a typed endpoint method that gets a status other than 200 with a body
\* that does not decode as the error envelope returns HttpError with the
\* status received and the body text unchanged, and has not run the decoder
\* of its success shape.
C2_HttpErrorOtherwise ==
    \A t \in Threads :
        (/\ Answered(t)
         /\ calls[t].op \in TypedOps
         /\ calls[t].response.read.ok
         /\ calls[t].response.status # 200
         /\ ~ErrorResponse(Raw(t)).ok)
        => /\ calls[t].returns = << HttpError(calls[t].response.status, Raw(t)) >>
           /\ calls[t].tried = << "ErrorResponse" >>

C2_Witness ==
    \E t \in Threads :
        /\ Answered(t)
        /\ calls[t].op = "get_stats"
        /\ calls[t].response.status = 201
        /\ calls[t].response.read.ok
        /\ Raw(t) = StatsJson(<< >>)
        /\ Decode(GetStatsResponse, Raw(t)).ok
        /\ calls[t].returns = << HttpError(201, StatsJson(<< >>)) >>

\* C3: call(url) returns the same kind of outcome as a typed endpoint method
\* with the same response type would for the same status and body.
C3_CallClassifiesLikeTyped ==
    \A t \in Threads :
        (Answered(t) /\ calls[t].op = "call")
        => calls[t].returns[1].k
               = ClassifyTyped(ResponseType(calls[t].T), calls[t].response).ret.k

\* C4: no client operation returns a success value when the status is not 200.
C4_NoSuccessUnlessOk ==
    \A t \in Threads :
        (Answered(t) /\ calls[t].response.status # 200)
        => \A i \in DOMAIN calls[t].returns : calls[t].returns[i].k # "Ok"

\* A required (non-Option) field of a structure has no key in a JSON object.
RequiredMissing(T, j) ==
    /\ j.k = "obj"
    /\ \E i \in DOMAIN T.fields :
           T.fields[i].ty.k # "Option" /\ T.fields[i].wire \cap DOMAIN j.o = {}

\* C5: an operation (typed or call) that gets status 200 with a body that does
\* not decode as its response type -- in particular a body that lacks a
\* required field -- returns ParseResponse carrying the decode error, never a
\* success value.
C5_ParseResponseOnMismatch ==
    \A t \in Threads :
        LET T == ResponseType(calls[t].T) IN
        (/\ Answered(t)
         /\ calls[t].response.read.ok
         /\ calls[t].response.status = 200
         /\ (RequiredMissing(T, Raw(t)) \/ ~Decode(T, Raw(t)).ok))
        => /\ ~Decode(T, Raw(t)).ok
           /\ calls[t].returns = << ParseResponse(Decode(T, Raw(t)).err) >>

C5_Witness ==
    \E t \in Threads :
        /\ Answered(t)
        /\ calls[t].op = "get_bounces"
        /\ calls[t].response.status = 200
        /\ calls[t].response.read.ok
        /\ Raw(t) = ObjOf(<< <<"items", JArr(<< >>)>> >>)
        /\ calls[t].returns = << ParseResponse("data") >>

\* The decoded value v of type ty says what the JSON value j says: strings,
\* numbers and booleans are equal, a structure takes each field from the key
\* of that field, and an Option is None exactly when the key is missing or
\* null.
RECURSIVE DeepEqual(_, _, _)
DeepEqual(ty, v, j) ==
    CASE ty.k = "String" -> v.k = "String" /\ j.k = "str" /\ v.s = j.s
      [] ty.k \in {"i64", "usize"} -> v.k = "int" /\ j.k = "num" /\ v.n = j.n
      [] ty.k = "f64" ->
             v.k = "f64" /\ j.k \in {"num", "float"} /\ v.n = j.n /\ v.frac = (j.k = "float")
      [] ty.k = "bool" -> v.k = "bool" /\ j.k = "bool" /\ v.b = j.b
      [] ty.k = "Option" ->
             IF j.k = "null" THEN v = VNone
             ELSE v.k = "Some" /\ DeepEqual(ty.t, v.x, j)
      [] ty.k = "Vec" ->
             /\ v.k = "Vec" /\ j.k = "arr" /\ Len(v.a) = Len(j.a)
             /\ \A i \in 1..Len(j.a) : DeepEqual(ty.t, v.a[i], j.a[i])
      [] ty.k = "struct" ->
             /\ v.k = "struct" /\ j.k = "obj"
             /\ DOMAIN v.f = {ty.fields[i].name : i \in DOMAIN ty.fields}
             /\ \A i \in DOMAIN ty.fields :
                    LET f == ty.fields[i]
                        keys == f.wire \cap DOMAIN j.o
                    IN  IF keys = {} THEN f.ty.k = "Option" /\ v.f[f.name] = VNone
                        ELSE \E key \in keys : DeepEqual(f.ty, v.f[f.name], j.o[key])

\* C6: a typed endpoint method that gets status 200 with a body that decodes
\* as its response type returns Ok with exactly the decoded value, and that
\* value is deep-equal to the body: every field comes from the body, and an
\* optional field that is missing from the body is None.
C6_OkCarriesDecodedBody ==
    \A t \in Threads :
        LET T == ResponseType(calls[t].T) IN
        (/\ Answered(t)
         /\ calls[t].op \in TypedOps
         /\ calls[t].response.read.ok
         /\ calls[t].response.status = 200
         /\ Decode(T, Raw(t)).ok)
        => /\ calls[t].returns = << ROk(Decode(T, Raw(t)).v) >>
           /\ DeepEqual(T, calls[t].returns[1].v, Raw(t))

C6_Witness ==
    \E t \in Threads :
        /\ Answered(t)
        /\ calls[t].op = "get_events"
        /\ calls[t].response.status = 200
        /\ calls[t].response.read.ok
        /\ Raw(t) = ListOf(<< EventRichJson, EventMinJson >>, PagingFull)
        /\ calls[t].returns[1].k = "Ok"
        /\ calls[t].returns[1].v.f.items.a[1].f.severity = VSome(VStr("permanent"))
        /\ calls[t].returns[1].v.f.items.a[2].f.severity = VNone
        /\ calls[t].returns[1].v.f.paging.f.last = VNone

\* C7: with status 200 the error envelope is not consulted: the only decoder
\* run is that of the response type, and the result is never ApiError, also
\* when the body has the shape of an error envelope.
C7_EnvelopeOnlyOnFailure ==
    \A t \in Threads :
        (/\ Answered(t)
         /\ calls[t].response.read.ok
         /\ calls[t].response.status = 200)
        => /\ calls[t].tried = << calls[t].T >>
           /\ calls[t].returns[1].k \in {"Ok", "ParseResponse"}

SendOkBody ==
    ObjOf(<< <<"id", JStr("<2015.1@example.com>")>>, <<"message", JStr("Queued. Thank you.")>> >>)

C7_Witness ==
    \E t \in Threads :
        /\ Answered(t)
        /\ calls[t].op = "send_message"
        /\ calls[t].response.status = 200
        /\ calls[t].response.read.ok
        /\ Raw(t) = SendOkBody
        /\ ErrorResponse(Raw(t)).ok
        /\ calls[t].returns[1].k = "Ok"
        /\ calls[t].returns[1].v.f.message = VStr("Queued. Thank you.")

ResultKinds == {"Ok", "ParamError", "ReadResponse", "ApiError", "HttpError", "ParseResponse"}

\* C8: an invocation ends with exactly one result, a success value or one of
\* the five error kinds; until it ends it has returned nothing, and it never
\* ends without a result (by aborting).
C8_ExactlyOneOutcome ==
    \A t \in Threads :
        /\ calls[t].pc # "panicked"
        /\ calls[t].pc = "done" =>
               Len(calls[t].returns) = 1 /\ calls[t].returns[1].k \in ResultKinds
        /\ calls[t].pc # "done" => calls[t].returns = << >>

C8_Witness ==
    \E t \in Threads :
        /\ calls[t].pc = "done"
        /\ calls[t].op = "get_bounces"
        /\ Len(calls[t].list.values) = 2
        /\ calls[t].list.values[2].val.n = 10001
        /\ calls[t].returns[1].k = "HttpError"

\* send_message takes a SendMessageParamList<String>: the value behind
\* RecipientVariables is a String, which serde_json::to_string always writes.
\* So no list a caller can pass holds a parameter that fails to render, and
\* no invocation returns ParamError.
RenderNeverFails ==
    \A t \in Threads :
        /\ \A i \in DOMAIN calls[t].list.values : try_as_tuple(calls[t].list.values[i]).ok
        /\ \A i \in DOMAIN calls[t].returns : calls[t].returns[i].k # "ParamError"


\* C10: when reading the body fails, the operation (typed or call) returns
\* ReadResponse carrying the I/O error, whatever the status, and runs no
\* decoder.
C10_ReadResponseOnReadFailure ==
    \A t \in Threads :
        (Answered(t) /\ ~calls[t].response.read.ok)
        => /\ calls[t].returns = << ReadResponse(calls[t].response.read.err) >>
           /\ calls[t].tried = << >>

C10_Witness ==
    \E t \in Threads :
        /\ Answered(t)
        /\ calls[t].op = "get_unsubscribes"
        /\ calls[t].response.status = 404
        /\ ~calls[t].response.read.ok
        /\ calls[t].returns = << ReadResponse("connection reset") >>

\* Every parameter of the list of t renders.
AllRender(t) ==
    \A i \in DOMAIN calls[t].list.values : try_as_tuple(calls[t].list.values[i]).ok

\* C11: an invocation issues at most one HTTP request: none before
\* request.call(), one from then on; an invocation that has ended has issued
\* exactly one when all its parameters rendered and none when it ended with
\* ParamError; ending with ApiError, HttpError, ParseResponse or ReadResponse
\* leaves the count at one.
C11_AtMostOneRequest ==
    \A t \in Threads :
        /\ Len(calls[t].sent) <= 1
        /\ calls[t].pc \in {"waiting", "received"} => Len(calls[t].sent) = 1
        /\ calls[t].pc \in {"idle", "building", "render"} => Len(calls[t].sent) = 0
        /\ calls[t].pc = "done" =>
               /\ AllRender(t) => Len(calls[t].sent) = 1
               /\ calls[t].returns[1].k = "ParamError" => Len(calls[t].sent) = 0
               /\ calls[t].returns[1].k \in {"ApiError", "HttpError", "ParseResponse",
                                             "ReadResponse"} => Len(calls[t].sent) = 1

C11_Witness ==
    \E t \in Threads :
        /\ calls[t].pc = "done"
        /\ calls[t].op = "send_message"
        /\ Len(calls[t].list.values) = 2
        /\ calls[t].returns[1].k = "HttpError"
        /\ Len(calls[t].sent) = 1

\* The pairs the parameters of a list render to, in the order of the list.
Rendered(values) == [i \in 1..Len(values) |-> try_as_tuple(values[i]).v]

\* C12: the query of a typed endpoint request is the sequence of rendered
\* pairs of the parameter list: while the loop runs it is the rendering of
\* the parameters passed so far, and the request sent carries one pair per
\* parameter in insertion order, repeated keys included.  The default
\* GetBouncesParamList gives no query parameters, adding Limit(1) gives
\* exactly limit=1, and adding Limit(1) then Limit(10001) gives both.
C12_QueryIsRenderedList ==
    \A t \in Threads :
        LET values == calls[t].list.values IN
        /\ (calls[t].op \in TypedOps /\ calls[t].pc = "render")
           => calls[t].request.query = Rendered(SubSeq(values, 1, calls[t].i - 1))
        /\ (calls[t].op \in TypedOps /\ calls[t].sent # << >>)
           => /\ calls[t].sent[1].query = Rendered(values)
              /\ Len(calls[t].sent[1].query) = Len(values)
        /\ (calls[t].op = "get_bounces" /\ calls[t].sent # << >>)
           => /\ values = << >> => calls[t].sent[1].query = << >>
              /\ values = << P("GetBouncesParam", "Limit", PUsize(1)) >>
                 => calls[t].sent[1].query = << <<"limit", "1">> >>
              /\ values = << P("GetBouncesParam", "Limit", PUsize(1)),
                             P("GetBouncesParam", "Limit", PUsize(10001)) >>
                 => calls[t].sent[1].query = << <<"limit", "1">>, <<"limit", "10001">> >>

C12_Witness ==
    \E t \in Threads :
        /\ calls[t].op = "get_bounces"
        /\ calls[t].pc = "waiting"
        /\ calls[t].list.values = << P("GetBouncesParam", "Limit", PUsize(1)) >>
        /\ calls[t].sent = << [method |-> "GET",
                               url |-> "https://api.mailgun.net/v3/example.com/bounces",
                               auth |-> <<"api", "key-1">>,
                               query |-> << <<"limit", "1">> >>] >>

\* C13: send_message with the list built from the empty default by adding
\* Text, To, From and OTestMode(true) in that order issues exactly one POST to
\* {base}/{domain}/messages whose parameters are text, to, from and
\* o:testmode=yes in that order; for any list the parameters of the request
\* follow the insertion order of the list.
C13_SendMessageOrder ==
    \A t \in Threads :
        (calls[t].op = "send_message" /\ calls[t].pc \in {"waiting", "received", "done"})
        => /\ Len(calls[t].sent) = 1
           /\ calls[t].sent[1].method = "POST"
           /\ calls[t].sent[1].url
                  = "https://api.mailgun.net/v3/" \o client.domain \o "/messages"
           /\ DOMAIN calls[t].sent[1].query = DOMAIN calls[t].list.values
           /\ \A i \in DOMAIN calls[t].list.values :
                  calls[t].sent[1].query[i] = try_as_tuple(calls[t].list.values[i]).v
           /\ calls[t].list.values = tests_send_message(client.domain)
              => calls[t].sent[1].query
                     = << <<"text", "test message">>,
                          <<"to", "rrider@pfgcapital.com">>,
                          <<"from", "Test <test@" \o client.domain \o ">">>,
                          <<"o:testmode", "yes">> >>

C13_Witness ==
    \E t \in Threads :
        /\ calls[t].op = "send_message"
        /\ calls[t].pc = "done"
        /\ client.domain = "example.com"
        /\ calls[t].list.values = tests_send_message("example.com")
        /\ calls[t].sent[1].method = "POST"
        /\ calls[t].sent[1].url = "https://api.mailgun.net/v3/example.com/messages"
        /\ calls[t].sent[1].query = << <<"text", "test message">>,
                                       <<"to", "rrider@pfgcapital.com">>,
                                       <<"from", "Test <test@example.com>">>,
                                       <<"o:testmode", "yes">> >>

\* The call try_as_tuple has returned from, on thread t.
Rendered1(t) == calls[t].pc = "returned" /\ calls[t].fn = "try_as_tuple"

\* C14: Ascending of the events parameters and ODkim, OTestMode,
\* OTrackingOpens, ORequireTls and OSkipVerification of the send message
\* parameters render "yes" for true and "no" for false, never "true" or
\* "false"; the other boolean parameters, Pretty and OTracking, render
\* "true" or "false".
C14_YesNoBooleans ==
    \A t \in Threads :
        (Rendered1(t) /\ calls[t].param.val.k = "bool")
        => LET p == calls[t].param
               value == calls[t].result.v[2]
               yesno == \/ p.enum = "GetEventsParam" /\ p.variant = "Ascending"
                        \/ /\ p.enum = "SendMessageParam"
                           /\ p.variant \in {"ODkim", "OTestMode", "OTrackingOpens",
                                             "ORequireTls", "OSkipVerification"} IN
           /\ calls[t].result.ok
           /\ yesno => /\ value = (IF p.val.b THEN "yes" ELSE "no")
                       /\ value \notin {"true", "false"}
           /\ ~yesno => /\ p.variant \in {"Pretty", "OTracking"}
                        /\ value = (IF p.val.b THEN "true" ELSE "false")

C14_Witness ==
    \E t \in Threads :
        /\ Rendered1(t)
        /\ calls[t].param = P("SendMessageParam", "OSkipVerification", PBool(FALSE))
        /\ calls[t].result = Ok(<<"o:skip-verification", "no">>)

\* C15: for every variant of every parameter enum other than
\* SendMessageParam::RecipientVariables, and every payload, limits beyond
\* the documented range included, try_as_tuple returns Ok with a key that
\* is not empty; a limit is written with its digits, unvalidated.
C15_RenderingNeverFails ==
    \A t \in Threads :
        (Rendered1(t) /\ calls[t].param.variant # "RecipientVariables")
        => /\ calls[t].result.ok
           /\ calls[t].result.v[1] # ""
           /\ calls[t].param.val.k = "usize"
              => calls[t].result.v = <<"limit", usize_to_string(calls[t].param.val.n)>>

C15_Witness ==
    \E t \in Threads :
        /\ Rendered1(t)
        /\ calls[t].param = P("GetBouncesParam", "Limit", PUsize(10001))
        /\ calls[t].result = Ok(<<"limit", "10001">>)

RECURSIVE Pow10(_)
Pow10(n) == IF n = 0 THEN 1 ELSE 10 * Pow10(n - 1)

\* JSON can carry the value: every key of every map in it is a string or an
\* integer.
RECURSIVE Encodable(_)
Encodable(v) ==
    CASE v.k = "Vec" -> \A i \in DOMAIN v.items : Encodable(v.items[i])
      [] v.k = "Map" -> \A i \in DOMAIN v.entries :
                            /\ v.entries[i].key.k \in {"String", "i64"}
                            /\ Encodable(v.entries[i].val)
      [] OTHER -> TRUE

\* The JSON value j is the value v: the same string, number, truth value,
\* null for None, the same elements in order, the same entries under the
\* same keys.
RECURSIVE Equivalent(_, _)
Equivalent(v, j) ==
    CASE v.k = "String" -> j.j = "String" /\ j.jc = v.chars
      [] v.k = "i64" -> j.j = "Int" /\ j.ji = v.int
      [] v.k = "f64" -> /\ v.class = "finite"
                        /\ j.j = "Float"
                        /\ j.jm * 10 = v.tenths * Pow10(j.js)
      [] v.k = "bool" -> j.j = "Bool" /\ j.jb = v.bool
      [] v.k = "None" -> j.j = "Null"
      [] v.k = "Vec" -> /\ j.j = "Array"
                        /\ Len(j.ja) = Len(v.items)
                        /\ \A i \in DOMAIN v.items : Equivalent(v.items[i], j.ja[i])
      [] v.k = "Map" ->
             /\ j.j = "Object"
             /\ Len(j.jo) = Len(v.entries)
             /\ \A i \in DOMAIN v.entries :
                    /\ j.jo[i].name = (IF v.entries[i].key.k = "String"
                                       THEN v.entries[i].key.chars
                                       ELSE itoa(v.entries[i].key.int))
                    /\ Equivalent(v.entries[i].val, j.jo[i].value)

\* C16: RecipientVariables(v) fails to render, with ParamError::InvalidJson
\* naming "recipient-variables", exactly when v cannot be JSON-encoded;
\* otherwise it renders ("recipient-variables", s) and decoding s as JSON
\* gives a value equivalent to v.
C16_RecipientVariablesRoundTrip ==
    \A t \in Threads :
        (Rendered1(t) /\ calls[t].param.variant = "RecipientVariables")
        => LET v == calls[t].param.val.x
               r == calls[t].result IN
           /\ ~r.ok <=> ~Encodable(v)
           /\ ~r.ok => r.err.k = "InvalidJson" /\ r.err.name = "recipient-variables"
           /\ r.ok => /\ r.v[1] = "recipient-variables"
                      /\ r.v[2] = Concat(serialize(v).v)
                      /\ from_chars(serialize(v).v).ok
                      /\ Equivalent(v, from_chars(serialize(v).v).v)

\* C17: the default lists of bounces, complaints, unsubscribes, whitelists
\* and send message are empty, the default stats list holds event=accepted,
\* event=delivered, event=failed in that order and the default events list
\* holds pretty=false; add appends after them, so a list always begins
\* with its defaults and they are the leading parameters of the request.
C17_DefaultsLead ==
    /\ \A ty \in {"GetBouncesParamList", "GetComplaintsParamList",
                  "GetUnsubscribesParamList", "GetWhitelistsParamList",
                  "SendMessageParamList"} : Default(ty).values = << >>
    /\ Rendered(Default("GetStatsParamList").values)
           = << <<"event", "accepted">>, <<"event", "delivered">>, <<"event", "failed">> >>
    /\ Rendered(Default("GetEventsParamList").values) = << <<"pretty", "false">> >>
    /\ \A t \in Threads :
           LET list == calls[t].list
               lead == CASE list.ty = "GetStatsParamList" ->
                                << <<"event", "accepted">>, <<"event", "delivered">>,
                                   <<"event", "failed">> >>
                         [] list.ty = "GetEventsParamList" -> << <<"pretty", "false">> >>
                         [] OTHER -> << >> IN
           list.ty \in ParamListTypes
           => /\ Len(list.values) >= Len(lead)
              /\ Rendered(SubSeq(list.values, 1, Len(lead))) = lead
              /\ calls[t].sent # << >>
                 => SubSeq(calls[t].sent[1].query, 1, Len(lead)) = lead

C17_Witness ==
    \E t \in Threads :
        /\ calls[t].op = "get_stats"
        /\ calls[t].pc = "done"
        /\ calls[t].sent[1].query
               = << <<"event", "accepted">>, <<"event", "delivered">>, <<"event", "failed">>,
                    <<"resolution", "month">> >>

\* C18: each typed method sends to https://api.mailgun.net/v3/{domain}/{path}
\* with path bounces, complaints, events, stats/total, unsubscribes,
\* whitelists or messages; the six get_ methods use GET and send_message
\* uses POST.
C18_EndpointUrlAndMethod ==
    \A t \in Threads :
        \A i \in DOMAIN calls[t].sent :
            LET r == calls[t].sent[i]
                at == "https://api.mailgun.net/v3/" \o client.domain \o "/" IN
            /\ calls[t].op = "get_bounces" => r.method = "GET" /\ r.url = at \o "bounces"
            /\ calls[t].op = "get_complaints"
               => r.method = "GET" /\ r.url = at \o "complaints"
            /\ calls[t].op = "get_events" => r.method = "GET" /\ r.url = at \o "events"
            /\ calls[t].op = "get_stats" => r.method = "GET" /\ r.url = at \o "stats/total"
            /\ calls[t].op = "get_unsubscribes"
               => r.method = "GET" /\ r.url = at \o "unsubscribes"
            /\ calls[t].op = "get_whitelists"
               => r.method = "GET" /\ r.url = at \o "whitelists"
            /\ calls[t].op = "send_message" => r.method = "POST" /\ r.url = at \o "messages"

C18_Witness ==
    \E t \in Threads :
        /\ calls[t].op = "get_stats"
        /\ client.domain = "mg.test"
        /\ calls[t].pc = "received"
        /\ calls[t].sent[1].method = "GET"
        /\ calls[t].sent[1].url = "https://api.mailgun.net/v3/mg.test/stats/total"

\* C19: every request any of the eight operations sends carries HTTP Basic
\* credentials with the user name "api" and the API key of the client as
\* the password.
C19_BasicAuth ==
    \A t \in Threads :
        /\ \A i \in DOMAIN calls[t].sent :
               calls[t].sent[i].auth = <<"api", client.api_key>>
        /\ calls[t].pc = "render" => calls[t].request.auth = <<"api", client.api_key>>

C19_Witness ==
    \E t \in Threads :
        /\ calls[t].op = "get_whitelists"
        /\ client.api_key = "key-2"
        /\ calls[t].pc = "waiting"
        /\ calls[t].sent[1].auth = <<"api", "key-2">>

\* C20: call(url) sends one GET to exactly the URL it was given, unchanged,
\* with no query parameter attached: no domain is put in and no default of
\* an endpoint such as pretty=false is added.
C20_CallUsesUrlAsGiven ==
    \A t \in Threads :
        calls[t].op = "call"
        => /\ calls[t].arg \in Urls
           /\ calls[t].request
                  = [method |-> "GET", url |-> calls[t].arg,
                     auth |-> <<"api", client.api_key>>, query |-> << >>]
           /\ calls[t].pc \in {"waiting", "received", "done"}
              => calls[t].sent = <<calls[t].request>>

C20_Witness ==
    \E t \in Threads :
        /\ calls[t].op = "call"
        /\ calls[t].T = "GetEventsResponse"
        /\ calls[t].pc = "done"
        /\ calls[t].arg = NextUrl
        /\ calls[t].sent[1].url
               = "https://api.mailgun.net/v3/example.com/bounces?page=next&address=b"
        /\ calls[t].sent[1].query = << >>

\* C21: the credentials are fixed by Client::new: no step of any operation,
\* whether the call succeeds or fails, changes api_key or domain, so after
\* any sequence of calls the client holds the pair it was constructed with.
C21_CredentialsUnchanged ==
    [][/\ client'.api_key = client.api_key
       /\ client'.domain = client.domain
       /\ \E c \in Credentials : client' = new(c.api_key, c.domain)]_vars

C21_Witness ==
    \E t \in Threads :
        /\ calls[t].pc = "done"
        /\ calls[t].op = "get_bounces"
        /\ calls[t].returns[1].k = "HttpError"
        /\ calls[t].sent[1].auth = <<"api", "key-2">>
        /\ calls[t].sent[1].url = "https://api.mailgun.net/v3/mg.test/bounces"
        /\ client = new("key-2", "mg.test")

\* The path each typed method asks.
PathOf(op) ==
    CASE op = "get_bounces" -> "bounces"
      [] op = "get_complaints" -> "complaints"
      [] op = "get_events" -> "events"
      [] op = "get_stats" -> "stats/total"
      [] op = "get_unsubscribes" -> "unsubscribes"
      [] op = "get_whitelists" -> "whitelists"
      [] op = "send_message" -> "messages"

\* What a call running alone sends, given its operation and its arguments.
AloneRequest(inv) ==
    IF inv.op = "call"
    THEN [method |-> "GET", url |-> inv.arg, auth |-> <<"api", client.api_key>>,
          query |-> << >>]
    ELSE [method |-> IF inv.op = "send_message" THEN "POST" ELSE "GET",
          url |-> "https://api.mailgun.net/v3/" \o client.domain \o "/" \o PathOf(inv.op),
          auth |-> <<"api", client.api_key>>,
          query |-> Rendered(inv.list.values)]

\* What a call running alone returns, given its response.
AloneOutcome(inv) ==
    IF inv.op = "call" THEN ClassifyCall(ResponseType(inv.T), inv.response).ret
    ELSE ClassifyTyped(ResponseType(inv.T), inv.response).ret

\* C22: calls made concurrently from two threads on one shared client do not
\* interfere: under every interleaving a step of one thread leaves the call
\* of the other as it was, the request a call sends is the one its own
\* operation and parameter list give, and its outcome is the one its own
\* response gives, as if it had run alone.
C22_NoInterference ==
    [][/\ \A t \in DOMAIN calls, u \in DOMAIN calls :
              (t # u /\ calls'[t] # calls[t]) => calls'[u] = calls[u]
       /\ \A t \in DOMAIN calls :
              /\ calls'[t].sent # << >> => calls'[t].sent = << AloneRequest(calls'[t]) >>
              /\ (calls'[t].pc = "done" /\ calls'[t].sent # << >>)
                 => calls'[t].returns = << AloneOutcome(calls'[t]) >>]_vars

C22_Witness ==
    /\ DOMAIN calls = {"t1", "t2"}
    /\ calls["t1"].pc = "done"
    /\ calls["t1"].op = "get_events"
    /\ calls["t1"].returns[1].k = "ApiError"
    /\ calls["t2"].pc = "done"
    /\ calls["t2"].op = "get_bounces"
    /\ calls["t2"].list.values = << P("GetBouncesParam", "Limit", PUsize(1)) >>
    /\ calls["t2"].sent[1].query = << <<"limit", "1">> >>
    /\ calls["t2"].returns[1].k = "Ok"

\* C23: as_tuple returns exactly the pair try_as_tuple returns whenever
\* try_as_tuple succeeds and aborts instead of returning whenever it fails,
\* while try_as_tuple hands the failure back as an error value; every
\* parameter of the six get_ endpoints renders, so the methods rendering
\* with as_tuple meet no failure to report.
C23_AsTupleUnwraps ==
    \A t \in Threads :
        LET p == calls[t].param
            r == try_as_tuple(p) IN
        /\ calls[t].fn = "as_tuple"
           => /\ r.ok => calls[t].pc = "returned" /\ calls[t].result = Ok(r.v)
              /\ ~r.ok => calls[t].pc = "panicked"
        /\ calls[t].fn = "try_as_tuple"
           => /\ calls[t].pc = "returned"
              /\ calls[t].result = r
              /\ ~r.ok => calls[t].result.err.k = "InvalidJson"
        /\ p.enum # "SendMessageParam" => r.ok /\ calls[t].pc # "panicked"
        /\ calls[t].pc = "panicked" => p.variant = "RecipientVariables" /\ ~r.ok

C23_Witness ==
    \E t \in Threads :
        /\ calls[t].pc = "panicked"
        /\ calls[t].fn = "as_tuple"
        /\ calls[t].param
               = P("SendMessageParam", "RecipientVariables",
                   PRef(SMap(<<SEntry(SVec(<<SInt(1), SInt(2)>>), SStr(<<"x">>))>>)))
        /\ try_as_tuple(calls[t].param)
               = Err(InvalidJson("recipient-variables", "key must be a string"))

\* The keys among error and Error under which a JSON object holds a string.
ErrorKeys(j) == {x \in {"error", "Error"} \cap DOMAIN j.o : j.o[x].k = "str"}

\* The JSON object holds a string under message.
HasMessage(j) == "message" \in DOMAIN j.o /\ j.o["message"].k = "str"

\* C24: decoding the error envelope tries the error shape before the message
\* shape and ignores unknown fields: a body with a status other than 200
\* that holds a string under error (or Error) and a string under message
\* gives ApiError carrying the error text, and a body that holds no string
\* under error but a string under message gives ApiError carrying the
\* message text.
C24_ErrorShapeFirst ==
    \A t \in Threads :
        (/\ Answered(t)
         /\ calls[t].response.read.ok
         /\ calls[t].response.status # 200
         /\ Raw(t).k = "obj"
         /\ HasMessage(Raw(t)))
        => /\ ErrorKeys(Raw(t)) # {}
              => /\ calls[t].returns[1].k = "ApiError"
                 /\ calls[t].returns[1].e.name = "WithError"
                 /\ calls[t].returns[1].e.f.error.s
                        \in {Raw(t).o[x].s : x \in ErrorKeys(Raw(t))}
           /\ ErrorKeys(Raw(t)) = {}
              => /\ calls[t].returns[1].k = "ApiError"
                 /\ calls[t].returns[1].e.name = "WithMessage"
                 /\ calls[t].returns[1].e.f.message.s = Raw(t).o["message"].s

====
